---- MODULE Spec2Model ----
(***************************************************************************)
(* A model of playfair-rs (src/src/lib.rs): the key-square builder         *)
(* generate_key and the two public functions encrypt and decrypt.          *)
(*                                                                         *)
(* A character is a one-character string; a Rust string or Vec<u8> is a    *)
(* sequence of characters.  The inputs are ASCII, where `c as u8` and      *)
(* String::from_utf8 keep every character as it is.  Rust indexes from 0,  *)
(* TLA+ sequences from 1: the element the code calls v[i] is v[i + 1].     *)
(* An Option<String> is a record [tag, val]: tag "Some" with the string,   *)
(* "None" for the failure result, and "Panic" for an index out of bounds.  *)
(***************************************************************************)
EXTENDS Integers, Sequences, FiniteSets, TLC

VARIABLES fn, keyword, text, pad, pc, key, stream, result, back

vars == <<fn, keyword, text, pad, pc, key, stream, result, back>>

(***************************************************************************)
(* Bounds of the enumerated inputs.                                        *)
(***************************************************************************)
\* the longest enumerated keyword of a generate_key call
MaxKeywordLen == 3

\* the longest enumerated keyword of an encrypt or decrypt call
MaxCipherKeyLen == 2

\* the longest enumerated plaintext or ciphertext
MaxTextLen == 4

(***************************************************************************)
(* Characters.                                                             *)
(***************************************************************************)
LowerAlphabet ==
    <<"a","b","c","d","e","f","g","h","i","j","k","l","m",
      "n","o","p","q","r","s","t","u","v","w","x","y","z">>

UpperAlphabet ==
    <<"A","B","C","D","E","F","G","H","I","J","K","L","M",
      "N","O","P","Q","R","S","T","U","V","W","X","Y","Z">>

Range(s) == {s[n] : n \in 1..Len(s)}

\* char::is_alphabetic on ASCII
is_alphabetic(c) == c \in Range(LowerAlphabet) \cup Range(UpperAlphabet)

\* str::to_lowercase on one ASCII character
char_to_lowercase(c) ==
    IF c \in Range(UpperAlphabet)
    THEN LowerAlphabet[CHOOSE n \in 1..26 : UpperAlphabet[n] = c]
    ELSE c

\* str::to_lowercase
to_lowercase(s) == [n \in 1..Len(s) |-> char_to_lowercase(s[n])]

\* .chars().filter(|c| c.is_alphabetic())
filter_alphabetic(s) == SelectSeq(s, is_alphabetic)

\* Vec::contains
contains(v, c) == \E n \in 1..Len(v) : v[n] = c

\* position(..).unwrap_or(0) in place of position(..)?: a missing character
\* is taken to be the first one
position_or_first(v, c) ==
    IF contains(v, c)
    THEN (CHOOSE n \in 1..Len(v) : v[n] = c /\ \A m \in 1..(n - 1) : v[m] # c) - 1
    ELSE 0

\* Iterator::position: the 0-based index of the first c in v, -1 for None
position(v, c) ==
    IF contains(v, c)
    THEN (CHOOSE n \in 1..Len(v) : v[n] = c /\ \A m \in 1..(n - 1) : v[m] # c) - 1
    ELSE -1

\* Vec::insert(i, c), i 0-based
insert(v, i, c) == SubSeq(v, 1, i) \o <<c>> \o SubSeq(v, i + 1, Len(v))

Some(v) == [tag |-> "Some", val |-> v]

None == [tag |-> "None", val |-> <<>>]

Panic == [tag |-> "Panic", val |-> <<>>]

Pending == [tag |-> "Pending", val |-> <<>>]

(***************************************************************************)
(* generate_key                                                            *)
(***************************************************************************)
\* update_key without the uniqueness test: every character is pushed
update_key_push_always(c, k) ==
    LET d == IF c = "j" THEN "i" ELSE c
    IN  Append(k, d)

\* the closure update_key: fold 'j' into 'i', push the character if new
update_key(c, k) ==
    LET d == IF c = "j" THEN "i" ELSE c
    IN  IF ~contains(k, d) THEN Append(k, d) ELSE k

\* for_each(|c| update_key(c, &mut key)) over the characters cs
\* (the test on Len(k) cannot fail: it makes TLC evaluate the key at every
\* step instead of nesting one pending update per character)
RECURSIVE for_each_update_key(_, _)
for_each_update_key(cs, k) ==
    IF cs = <<>> \/ Len(k) < 0 THEN k
    ELSE for_each_update_key(Tail(cs), update_key(Head(cs), k))

\* generate_key that fills from the alphabet first and the keyword second
generate_key_alphabet_first(kw) ==
    LET fromAlphabet == for_each_update_key(LowerAlphabet, <<>>)
    IN  for_each_update_key(filter_alphabetic(to_lowercase(kw)), fromAlphabet)

generate_key(kw) ==
    LET fromKeyword == for_each_update_key(filter_alphabetic(to_lowercase(kw)), <<>>)
    IN  for_each_update_key(LowerAlphabet, fromKeyword)

(***************************************************************************)
(* encrypt                                                                 *)
(***************************************************************************)
\* .map(|mut c| { if c == 'j' { c = 'i' } c as u8 })
fold_j(s) == [n \in 1..Len(s) |-> IF s[n] = "j" THEN "i" ELSE s[n]]

\* the normalization without the fold of 'j'
normalize_plaintext_keep_j(p) == filter_alphabetic(to_lowercase(p))

\* the plaintext after lowercasing, filtering and folding 'j'
normalize_plaintext(p) == fold_j(filter_alphabetic(to_lowercase(p)))

\* the duplicate pass: i runs over 0, 2, 4, ... below n, the length the
\* plaintext had when the range was built; insertions do not extend the range
RECURSIVE separate_duplicates(_, _, _, _)
separate_duplicates(p, i, n, padc) ==
    IF i >= n THEN p
    ELSE IF i + 1 < Len(p) /\ p[i + 2] = p[i + 1]
         THEN separate_duplicates(insert(p, i + 1, padc), i + 2, n, padc)
         ELSE separate_duplicates(p, i + 2, n, padc)

\* push the pad when the length is odd
pad_odd(p, padc) == IF Len(p) % 2 # 0 THEN Append(p, padc) ELSE p

\* the letter stream encrypt pairs up
padded_plaintext(p, padc) ==
    LET normalized == normalize_plaintext(p)
    IN  pad_odd(separate_duplicates(normalized, 0, Len(normalized), padc), padc)

\* encipher_pair with the two letters of the rectangle case pushed in the
\* other order
encipher_pair_rectangle_swapped(k, yx1, yx2) ==
    LET y1 == yx1 \div 5
        x1 == yx1 % 5
        y2 == yx2 \div 5
        x2 == yx2 % 5
    IN  IF y1 # y2 /\ x1 # x2
        THEN <<k[y2 * 5 + x1 + 1], k[y1 * 5 + x2 + 1]>>
        ELSE IF y1 = y2
        THEN <<k[y1 * 5 + ((x1 + 1) % 5) + 1], k[y2 * 5 + ((x2 + 1) % 5) + 1]>>
        ELSE IF x1 = x2
        THEN <<k[((y1 + 1) % 5) * 5 + x1 + 1], k[((y2 + 1) % 5) * 5 + x2 + 1]>>
        ELSE <<>>

\* the two letters pushed for the positions yx1, yx2 of a plaintext digram
encipher_pair(k, yx1, yx2) ==
    LET y1 == yx1 \div 5
        x1 == yx1 % 5
        y2 == yx2 \div 5
        x2 == yx2 % 5
    IN  IF y1 # y2 /\ x1 # x2
        THEN <<k[y1 * 5 + x2 + 1], k[y2 * 5 + x1 + 1]>>
        ELSE IF y1 = y2
        THEN <<k[y1 * 5 + ((x1 + 1) % 5) + 1], k[y2 * 5 + ((x2 + 1) % 5) + 1]>>
        ELSE IF x1 = x2
        THEN <<k[((y1 + 1) % 5) * 5 + x1 + 1], k[((y2 + 1) % 5) * 5 + x2 + 1]>>
        ELSE <<>>

\* the loop over the pairs, from index i with `out` already pushed
\* (the test on Len(out) cannot fail: it makes TLC evaluate `out` at every step)
RECURSIVE encipher(_, _, _, _)
encipher(k, p, i, out) ==
    IF i >= Len(p) \/ Len(out) < 0 THEN Some(out)
    ELSE LET yx1 == position(k, p[i + 1])
         IN  IF yx1 = -1 THEN None
             ELSE IF i + 1 >= Len(p) THEN Panic
             ELSE LET yx2 == position(k, p[i + 2])
                  IN  IF yx2 = -1 THEN None
                      ELSE encipher(k, p, i + 2, out \o encipher_pair(k, yx1, yx2))

encrypt(kw, p, padc) == encipher(generate_key(kw), padded_plaintext(p, padc), 0, <<>>)

(***************************************************************************)
(* decrypt                                                                 *)
(***************************************************************************)
\* the ciphertext after lowercasing and filtering ('j' is not folded)
normalize_ciphertext(c) == filter_alphabetic(to_lowercase(c))

\* decipher_pair with the column case moving down, as encrypt does
decipher_pair_column_down(k, yx1, yx2) ==
    LET y1 == yx1 \div 5
        x1 == yx1 % 5
        y2 == yx2 \div 5
        x2 == yx2 % 5
    IN  IF y1 # y2 /\ x1 # x2
        THEN <<k[y1 * 5 + x2 + 1], k[y2 * 5 + x1 + 1]>>
        ELSE IF y1 = y2
        THEN <<k[y1 * 5 + ((x1 + 5 - 1) % 5) + 1], k[y2 * 5 + ((x2 + 5 - 1) % 5) + 1]>>
        ELSE IF x1 = x2
        THEN <<k[((y1 + 1) % 5) * 5 + x1 + 1], k[((y2 + 1) % 5) * 5 + x2 + 1]>>
        ELSE <<>>

\* decipher_pair with the row case decrementing without the + 5: column 0
\* stays where it is instead of wrapping to column 4
decipher_pair_row_no_wrap(k, yx1, yx2) ==
    LET y1 == yx1 \div 5
        x1 == yx1 % 5
        y2 == yx2 \div 5
        x2 == yx2 % 5
        left(x) == IF x = 0 THEN 0 ELSE x - 1
    IN  IF y1 # y2 /\ x1 # x2
        THEN <<k[y1 * 5 + x2 + 1], k[y2 * 5 + x1 + 1]>>
        ELSE IF y1 = y2
        THEN <<k[y1 * 5 + left(x1) + 1], k[y2 * 5 + left(x2) + 1]>>
        ELSE IF x1 = x2
        THEN <<k[((y1 + 5 - 1) % 5) * 5 + x1 + 1], k[((y2 + 5 - 1) % 5) * 5 + x2 + 1]>>
        ELSE <<>>

\* the two letters pushed for the positions yx1, yx2 of a ciphertext digram
decipher_pair(k, yx1, yx2) ==
    LET y1 == yx1 \div 5
        x1 == yx1 % 5
        y2 == yx2 \div 5
        x2 == yx2 % 5
    IN  IF y1 # y2 /\ x1 # x2
        THEN <<k[y1 * 5 + x2 + 1], k[y2 * 5 + x1 + 1]>>
        ELSE IF y1 = y2
        THEN <<k[y1 * 5 + ((x1 + 5 - 1) % 5) + 1], k[y2 * 5 + ((x2 + 5 - 1) % 5) + 1]>>
        ELSE IF x1 = x2
        THEN <<k[((y1 + 5 - 1) % 5) * 5 + x1 + 1], k[((y2 + 5 - 1) % 5) * 5 + x2 + 1]>>
        ELSE <<>>

\* the loop over the pairs; ciphertext[i + 1] past the end is a panic
RECURSIVE decipher(_, _, _, _)
decipher(k, c, i, out) ==
    IF i >= Len(c) \/ Len(out) < 0 THEN Some(out)
    ELSE LET yx1 == position(k, c[i + 1])
         IN  IF yx1 = -1 THEN None
             ELSE IF i + 1 >= Len(c) THEN Panic
             ELSE LET yx2 == position(k, c[i + 2])
                  IN  IF yx2 = -1 THEN None
                      ELSE decipher(k, c, i + 2, out \o decipher_pair(k, yx1, yx2))

decrypt(kw, c) ==
    IF Len(c) % 2 # 0 THEN None
    ELSE decipher(generate_key(kw), normalize_ciphertext(c), 0, <<>>)

(***************************************************************************)
(* Inputs                                                                  *)
(***************************************************************************)
SeqsUpTo(S, n) == UNION {[1..m -> S] : m \in 0..n}

KeywordChars == {"f", "F", "i", "j", "J", "7", " "}

CipherKeyChars == {"f", "J"}

TextChars == {"a", "f", "j", "F", " "}

Pads == {"x", "a", "j", "X"}

Keywords == SeqsUpTo(KeywordChars, MaxKeywordLen)

CipherKeywords == SeqsUpTo(CipherKeyChars, MaxCipherKeyLen)

Texts == SeqsUpTo(TextChars, MaxTextLen)

\* the calls of test_generate_key, test_encrypt and test_decrypt
TestKeywords ==
    { <<"p","l","a","y","f","i","r","e"," ","e","x","a","m","p","l","e">>,
      <<"p","l","a","y","!","!","!","f","a","1","2","3","i","r"," ","e","x","^","&","*","a","m","p","l","e">> }

TestEncrypt ==
    { <<<<"p","l","a","y","f","a","i","r"," ","e","x","a","m","p","l","e">>,
        <<"h","i","d","e"," ","t","h","e"," ","g","o","l","d"," ","i","n"," ",
          "t","h","e"," ","t","r","e","e"," ","s","t","u","m","p">>, "x">>,
      <<<<"t","e","s","t">>,
        <<"t","e","s","t","i","n","g"," ","e","x","a","m","p","l","e">>, "x">>,
      <<<<"s","e","c","r","e","t","j">>,
        <<"r","u","s","t"," ","i","s"," ","a","w","e","s","o","m","e","j">>, "x">>,
      <<<<"1","t","2","Q","4","G","O","r","z","P","E">>, <<"m","g","k">>, "x">> }

TestDecrypt ==
    { <<<<"p","l","a","y","f","a","i","r"," ","e","x","a","m","p","l","e">>,
        <<"b","m","o","d","z","b","x","d","n","a","b","e","k","u","d","m","u",
          "i","x","m","m","o","u","v","i","f">>>>,
      <<<<"s","e","c","r","e","t","j">>,
        <<"t","q","e","s","g","i","h","e","c","e","u","h","s","a">>>>,
      <<<<"p","l","a","y","f","a","i","r">>,
        <<"o","d","d","n","u","m","b","e","r","o","f","c","h","a","r">>>> }

(***************************************************************************)
(* The state machine: one call of generate_key, encrypt or decrypt, and,   *)
(* after an encrypt that returned a ciphertext, decrypt of that ciphertext *)
(* under the same keyword.                                                 *)
(***************************************************************************)
Init ==
    /\ pc = "ready"
    /\ key = <<>>
    /\ stream = <<>>
    /\ result = Pending
    /\ back = Pending
    /\ \/ /\ fn = "generate_key"
          /\ keyword \in Keywords \cup TestKeywords
          /\ text = <<>>
          /\ pad = "x"
       \/ /\ fn = "encrypt"
          /\ \/ /\ keyword \in CipherKeywords
                /\ text \in Texts
                /\ pad \in Pads
             \/ \E t \in TestEncrypt :
                    /\ keyword = t[1]
                    /\ text = t[2]
                    /\ pad = t[3]
       \/ /\ fn = "decrypt"
          /\ pad = "x"
          /\ \/ /\ keyword \in CipherKeywords
                /\ text \in Texts
             \/ \E t \in TestDecrypt :
                    /\ keyword = t[1]
                    /\ text = t[2]

GenerateKey ==
    /\ pc = "ready"
    /\ fn = "generate_key"
    /\ key' = generate_key(keyword)
    /\ pc' = "generated"
    /\ UNCHANGED <<fn, keyword, text, pad, stream, result, back>>

Encrypt ==
    /\ pc = "ready"
    /\ fn = "encrypt"
    /\ key' = generate_key(keyword)
    /\ stream' = padded_plaintext(text, pad)
    /\ result' = encrypt(keyword, text, pad)
    /\ pc' = "encrypted"
    /\ UNCHANGED <<fn, keyword, text, pad, back>>

Decrypt ==
    /\ pc = "ready"
    /\ fn = "decrypt"
    /\ IF Len(text) % 2 # 0
       THEN UNCHANGED <<key, stream>>
       ELSE /\ key' = generate_key(keyword)
            /\ stream' = normalize_ciphertext(text)
    /\ result' = decrypt(keyword, text)
    /\ pc' = "decrypted"
    /\ UNCHANGED <<fn, keyword, text, pad, back>>

\* decrypt(keyword, encrypt(keyword, text, pad).unwrap())
DecryptEncrypted ==
    /\ pc = "encrypted"
    /\ result.tag = "Some"
    /\ back' = decrypt(keyword, result.val)
    /\ pc' = "roundtrip"
    /\ UNCHANGED <<fn, keyword, text, pad, key, stream, result>>

Next == GenerateKey \/ Encrypt \/ Decrypt \/ DecryptEncrypted

Spec == Init /\ [][Next]_vars

(***************************************************************************)
(* Properties                                                              *)
(***************************************************************************)
\* the call has built its key square (decrypt returns before generate_key
\* when the raw ciphertext length is odd)
KeyBuilt ==
    /\ pc # "ready"
    /\ ~(fn = "decrypt" /\ Len(text) % 2 # 0)

\* "abcdefghiklmnopqrstuvwxyz"
Alphabet25 ==
    <<"a","b","c","d","e","f","g","h","i","k","l","m",
      "n","o","p","q","r","s","t","u","v","w","x","y","z">>

\* the letters of s: alphabetic characters only, lowercased, 'j' as 'i'
LetterStream(s) ==
    LET letters == SelectSeq(s, is_alphabetic)
    IN  [n \in 1..Len(letters) |->
            LET c == char_to_lowercase(letters[n])
            IN  IF c = "j" THEN "i" ELSE c]

\* s without the later repeats of a character
RECURSIVE FirstOccurrences(_)
FirstOccurrences(s) ==
    IF s = <<>> THEN <<>>
    ELSE LET front == SubSeq(s, 1, Len(s) - 1)
             last == s[Len(s)]
         IN  IF last \in Range(front)
             THEN FirstOccurrences(front)
             ELSE Append(FirstOccurrences(front), last)

\* the key square the keyword kw stands for
ExpectedKey(kw) ==
    LET first == FirstOccurrences(LetterStream(kw))
        unused(c) == c \notin Range(first)
    IN  first \o SelectSeq(Alphabet25, unused)

\* C1: the key square generate_key returns has exactly 25 letters, no letter
\* twice, no 'j', and each of the 25 lowercase letters other than 'j' exactly
\* once, for every keyword.
C1_KeySquareWellFormed ==
    KeyBuilt =>
        /\ Len(key) = 25
        /\ \A m, n \in 1..Len(key) : m # n => key[m] # key[n]
        /\ \A n \in 1..Len(key) : key[n] # "j"
        /\ \A c \in Range(LowerAlphabet) \ {"j"} :
               Cardinality({n \in 1..Len(key) : key[n] = c}) = 1

\* a generate_key call whose keyword holds 'J', a digit and 'j'
C1_Witness ==
    /\ pc = "generated"
    /\ keyword = <<"J", "7", "j">>
    /\ Len(key) = 25
    /\ key[1] = "i"

\* C2: the key square is the keyword's letters (lowercased, 'j' as 'i') in
\* order of first occurrence, followed by the unused letters of a..z without
\* 'j' in alphabetical order; a keyword without letters gives the alphabet.
C2_KeySquareOrder ==
    KeyBuilt =>
        /\ key = ExpectedKey(keyword)
        /\ LetterStream(keyword) = <<>> => key = Alphabet25

\* a call whose keyword moves two letters to the front of the key square
C2_Witness ==
    /\ KeyBuilt
    /\ keyword = <<"J", "f">>
    /\ SubSeq(key, 1, 3) = <<"i", "f", "a">>

\* s is made only of lowercase letters
LowercaseOnly(s) == \A n \in 1..Len(s) : s[n] \in Range(LowerAlphabet)

\* no two neighbouring characters of s are equal
NoAdjacentEqual(s) == \A n \in 1..(Len(s) - 1) : s[n] # s[n + 1]

\* the plaintext of the round-trip claim as stated
RoundTripPlaintext ==
    /\ fn = "encrypt"
    /\ LowercaseOnly(text)
    /\ Len(text) % 2 = 0
    /\ NoAdjacentEqual(text)

\* C3 as stated: for a plaintext of lowercase letters, of even length, with
\* no two adjacent equal letters, encrypt succeeds and decrypt of the
\* ciphertext returns exactly the plaintext, for every keyword and pad.
C3_RoundTripAsStated ==
    RoundTripPlaintext =>
        /\ pc = "encrypted" => result.tag = "Some"
        /\ pc = "roundtrip" => back = Some(text)

\* C3 amended: the same for a plaintext of lowercase letters other than 'j'.
C3_RoundTripWithoutJ ==
    (RoundTripPlaintext /\ "j" \notin Range(text)) =>
        /\ pc = "encrypted" => result.tag = "Some"
        /\ pc = "roundtrip" => back = Some(text)

\* a round trip of two digrams under a pad that is not in the key square
C3_Witness ==
    /\ pc = "roundtrip"
    /\ RoundTripPlaintext
    /\ "j" \notin Range(text)
    /\ Len(text) = 4
    /\ pad = "X"
    /\ back = Some(text)

\* the letters of a ciphertext: alphabetic characters only, lowercased
CipherLetters(s) ==
    LET letters == SelectSeq(s, is_alphabetic)
    IN  [n \in 1..Len(letters) |-> char_to_lowercase(letters[n])]

\* C4: decrypt of a ciphertext with an odd number of letters returns the
\* failure result, whatever its raw character count.
C4_OddLettersFail ==
    (pc = "decrypted" /\ Len(CipherLetters(text)) % 2 # 0) => result = None

\* C5: decrypt's outcome is the outcome for the normalized ciphertext, and a
\* ciphertext with an even number of letters, all in the key square,
\* decrypts successfully, whatever its raw character count.
C5_DependsOnLettersOnly ==
    pc = "decrypted" =>
        /\ result = decrypt(keyword, CipherLetters(text))
        /\ ( /\ Len(CipherLetters(text)) % 2 = 0
             /\ Range(CipherLetters(text)) \subseteq Range(ExpectedKey(keyword)) )
           => result.tag = "Some"

\* C6: encrypt's outcome is the outcome for the plaintext's normalized letter
\* stream, so two plaintexts with the same letter stream encrypt alike.
C6_EncryptNormalizes ==
    pc = "encrypted" => result = encrypt(keyword, LetterStream(text), pad)

\* an encrypt of a plaintext with an uppercase letter, a 'j' and a space
C6_Witness ==
    /\ pc = "encrypted"
    /\ {"F", "j", " "} \subseteq Range(text)
    /\ result.tag = "Some"
    /\ Len(result.val) = 4

\* the 0-based place of the letter c in the key square k
PlaceOf(k, c) == CHOOSE n \in 0..24 : k[n + 1] = c

\* the letter of the key square k at row y, column x
LetterAt(k, y, x) == k[y * 5 + x + 1]

\* the Playfair rule for the digram (a, b) on the key square k
PlayfairDigram(k, a, b) ==
    LET ya == PlaceOf(k, a) \div 5
        xa == PlaceOf(k, a) % 5
        yb == PlaceOf(k, b) \div 5
        xb == PlaceOf(k, b) % 5
    IN  CASE ya # yb /\ xa # xb -> <<LetterAt(k, ya, xb), LetterAt(k, yb, xa)>>
          [] ya = yb -> <<LetterAt(k, ya, (xa + 1) % 5), LetterAt(k, yb, (xb + 1) % 5)>>
          [] OTHER -> <<LetterAt(k, (ya + 1) % 5, xa), LetterAt(k, (yb + 1) % 5, xb)>>

\* the Playfair rule applied to the digrams of the stream s, in order
PlayfairStream(k, s) ==
    [n \in 1..Len(s) |->
        LET d == (n + 1) \div 2
        IN  PlayfairDigram(k, s[2 * d - 1], s[2 * d])[n - 2 * (d - 1)]]

\* C7: with a lowercase pad of the key square, the ciphertext is the
\* Playfair rule applied to each digram of the padded letter stream, one
\* output digram per digram, in order; the documented example encrypts to
\* "bmodzbxdnabekudmuixmmouvif".
C7_PlayfairRule ==
    (pc = "encrypted" /\ pad \in Range(Alphabet25)) =>
        /\ result = Some(PlayfairStream(ExpectedKey(keyword), stream))
        /\ ( /\ keyword = <<"p","l","a","y","f","a","i","r"," ","e","x","a","m","p","l","e">>
             /\ text = <<"h","i","d","e"," ","t","h","e"," ","g","o","l","d"," ","i","n"," ",
                         "t","h","e"," ","t","r","e","e"," ","s","t","u","m","p">>
             /\ pad = "x" )
           => result = Some(<<"b","m","o","d","z","b","x","d","n","a","b","e","k","u","d",
                              "m","u","i","x","m","m","o","u","v","i","f">>)

\* the documented example, encrypted
C7_Witness ==
    /\ pc = "encrypted"
    /\ Len(keyword) = 16
    /\ Len(text) = 31
    /\ Len(stream) = 26
    /\ result.tag = "Some"
    /\ SubSeq(result.val, 1, 4) = <<"b", "m", "o", "d">>

\* C8: a letter missing from the key square gives the failure result: in
\* encrypt when the padded stream holds such a letter, in decrypt when the
\* even-length normalized ciphertext holds one.
C8_MissingLetterFails ==
    /\ ( /\ pc = "encrypted"
         /\ \E n \in 1..Len(stream) : stream[n] \notin Range(ExpectedKey(keyword)) )
       => result = None
    /\ ( /\ pc = "decrypted"
         /\ Len(CipherLetters(text)) % 2 = 0
         /\ \E n \in 1..Len(CipherLetters(text)) :
                CipherLetters(text)[n] \notin Range(ExpectedKey(keyword)) )
       => result = None

\* an encrypt that appended or inserted an uppercase pad after a full digram
C8_Witness ==
    /\ pc = "encrypted"
    /\ pad = "X"
    /\ Len(stream) = 4
    /\ stream[4] = "X"
    /\ result = None

\* C9: when the pad differs from every letter of the normalized plaintext,
\* no digram of the padded letter stream consists of two identical letters.
C9_NoIdenticalDigram ==
    (pc = "encrypted" /\ pad \notin Range(LetterStream(text))) =>
        \A d \in 1..(Len(stream) \div 2) : stream[2 * d - 1] # stream[2 * d]

\* C10: with a lowercase pad other than 'j', encrypt succeeds and decrypt of
\* the ciphertext returns exactly the padded letter stream, for every
\* plaintext, a digram of two identical letters included.
C10_RoundTripPaddedStream ==
    (fn = "encrypt" /\ pad \in Range(Alphabet25)) =>
        /\ pc = "encrypted" => result.tag = "Some"
        /\ pc = "roundtrip" => back = Some(stream)

\* a round trip whose stream holds a digram of two identical letters and an
\* inserted pad
C10_Witness ==
    /\ pc = "roundtrip"
    /\ pad = "x"
    /\ \E d \in 1..(Len(stream) \div 2) : stream[2 * d - 1] = stream[2 * d]
    /\ \E n \in 1..Len(stream) : stream[n] = "x"
    /\ back = Some(stream)

====
